---- MODULE Spec2Model ----
(***************************************************************************)
(* Model of backend/app.py, the Space Debris Detector API: a module-level  *)
(* YOLO handle loaded once, and the handlers root, health_check,           *)
(* model_info and predict.                                                 *)
(*                                                                         *)
(* Two specifications share the handler definitions:                       *)
(*   Spec      every handler is one atomic action (one request at a time); *)
(*   SpecConc  NumSlots requests are in flight at once and predict         *)
(*             advances one pipeline stage per step, so that requests      *)
(*             interleave at every stage boundary.                         *)
(*                                                                         *)
(* External libraries (PIL, ultralytics, cv2) are modelled by what the     *)
(* handler observes of them: an upload carries, next to its content type,  *)
(* whether its bytes decode, and what the detector and the JPEG encoder    *)
(* do on its pixels (the detector is a function of the pixels).            *)
(***************************************************************************)
EXTENDS Integers, Sequences, FiniteSets, TLC

VARIABLES model, started, calls, nreq, last, req

vars == <<model, started, calls, nreq, last, req>>

(* ------------------------------ bounds --------------------------------- *)

\* requests served in one behaviour
MaxRequests == 3
\* boxes the detector returns for one image
MaxBoxes == 2
\* requests in flight at once (SpecConc)
NumSlots == 2

Slots == 1..NumSlots

(* --------------------------- the detector handle ----------------------- *)

\* model = None (line 45)
None == [none |-> TRUE]

\* the label set of the weights file best.pt: class id -> name
Names == (0 :> "debris") @@ (1 :> "satellite")

\* YOLO("best.pt", task='detect') (line 41): the handle owns the label set
YOLO == [names |-> Names]

\* the module-level name is not bound before lines 40-45 have run
Unbound == [unbound |-> TRUE]

(* ------------------------------ uploads -------------------------------- *)

\* content types as character sequences, so that startswith is a real prefix test
ImagePng    == <<"i","m","a","g","e","/","p","n","g">>
ImageSlash  == <<"i","m","a","g","e","/">>
ImageNoSub  == <<"i","m","a","g","e">>
ImagesPng   == <<"i","m","a","g","e","s","/","p","n","g">>
UpperImage  == <<"I","m","a","g","e","/","p","n","g">>
TextPlain   == <<"t","e","x","t","/","p","l","a","i","n">>
EmptyType   == <<>>

ContentTypes ==
  {ImagePng, ImageSlash, ImageNoSub, ImagesPng, UpperImage, TextPlain, EmptyType}

\* the literal 'image/' of line 93
ImagePrefix == <<"i","m","a","g","e","/">>

\* one box of result.boxes: cls and conf tensors (conf in percent), xyxy row
BoxSet ==
  { [cls |-> 0, conf |-> 90, xyxy |-> <<1, 1, 3, 2>>],
    [cls |-> 1, conf |-> 30, xyxy |-> <<0, 0, 2, 1>>] }

RECURSIVE SeqsUpTo(_, _)
SeqsUpTo(S, n) ==
  IF n = 0 THEN {<<>>}
  ELSE LET shorter == SeqsUpTo(S, n - 1)
       IN  shorter \cup {Append(s, x) : s \in {t \in shorter : Len(t) = n - 1}, x \in S}

BoxSeqs == SeqsUpTo(BoxSet, MaxBoxes)

\* what the handler can observe of one upload
\*   decodes   "ok" | "unidentified" (Image.open raises) | "truncated" (load raises)
\*   outcome   "raise" (model.predict raises) | "none" (result.boxes is None) | "boxes"
\*   encodable the flag cv2.imencode returns
Upload(ct, dec, mode, size, outcome, boxes, enc) ==
  [content_type |-> ct, decodes |-> dec, mode |-> mode, size |-> size,
   outcome |-> outcome, boxes |-> boxes, encodable |-> enc]

Size == <<4, 3>>

Undecodable(ct, dec) == Upload(ct, dec, "RGB", Size, "none", <<>>, TRUE)

Uploads ==
  {Undecodable(ct, dec) : ct \in ContentTypes, dec \in {"unidentified", "ok"}}
  \cup {Undecodable(ImagePng, "truncated")}
  \cup {Upload(ct, "ok", mode, Size, "raise", <<>>, TRUE) :
          ct \in {ImagePng, ImageSlash}, mode \in {"RGB", "RGBA", "L"}}
  \cup {Upload(ImagePng, "ok", mode, Size, "boxes", b, enc) :
          mode \in {"RGB", "L"}, b \in BoxSeqs, enc \in BOOLEAN}
  \cup {Upload(ImagePng, "ok", "RGB", Size, "none", <<>>, FALSE)}

\* the uploads of the interleaved specification: one per way through predict
ConcUploads ==
  {u \in Uploads :
     /\ u.content_type \in {ImagePng, TextPlain}
     /\ u.content_type = TextPlain => u.decodes = "ok"
     /\ u.mode = "RGB"
     /\ u.decodes # "truncated"
     /\ u.outcome = "boxes" => Len(u.boxes) = (IF u.encodable THEN 1 ELSE 0)}

NoUpload == Undecodable(EmptyType, "unidentified")

(* ------------------------------ responses ------------------------------ *)

\* HTTPException(status_code=..., detail=...): the detail is a sequence of
\* text fragments, so that an f-string is a concatenation
HTTPException(status_code, detail) ==
  [status |-> status_code, body |-> [detail |-> detail]]

\* a handler's plain return value, and JSONResponse(content=...): status 200
Ok(content) == [status |-> 200, body |-> content]

NoResponse == [status |-> 0, body |-> [pending |-> TRUE]]

\* list(model.names.values()): the names in class-id order
NamesList(m) == [i \in 1..Cardinality(DOMAIN m.names) |-> m.names[i - 1]]

\* root (lines 54-65)
RootResponse(m) ==
  Ok([message |-> "Welcome to Space Debris Detector API",
      status |-> "online",
      model_loaded |-> (m # None),
      endpoints |-> [predict |-> "/predict (POST)", health |-> "/health (GET)"]])

\* a health answer that reports the model as loaded without looking
HealthResponseAlwaysLoaded(m) ==
  Ok([status |-> "healthy",
      model_loaded |-> TRUE,
      classes |-> IF m # None THEN NamesList(m) ELSE <<>>])

\* health_check (lines 67-74)
HealthResponse(m) ==
  Ok([status |-> "healthy",
      model_loaded |-> (m # None),
      classes |-> IF m # None THEN NamesList(m) ELSE <<>>])

\* model_info (lines 169-179)
ModelInfoResponse(m) ==
  IF m = None
  THEN HTTPException(500, <<"Model not loaded">>)
  ELSE Ok([model_type |-> "YOLOv8",
           classes |-> m.names,
           num_classes |-> Cardinality(DOMAIN m.names)])

(* ------------------------------- predict ------------------------------- *)

\* a prefix test that forgets the last character of the prefix (the slash)
StartsWithNoSlash(s, prefix) ==
  /\ Len(s) >= Len(prefix) - 1
  /\ SubSeq(s, 1, Len(prefix) - 1) = SubSeq(prefix, 1, Len(prefix) - 1)

\* str.startswith (line 93)
StartsWith(s, prefix) ==
  /\ Len(s) >= Len(prefix)
  /\ SubSeq(s, 1, Len(prefix)) = prefix

NoImage == [mode |-> "", size |-> <<0, 0>>]
NoResult == [none |-> TRUE, boxes |-> <<>>]
NoJpeg == [encoding |-> "", size |-> <<0, 0>>, boxes |-> <<>>]

\* a request as dispatched to its handler: the handler's locals are unset
NewRequest(kind, u) ==
  [kind |-> kind, upload |-> u, pc |-> "start", image |-> NoImage,
   result |-> NoResult, img_base64 |-> NoJpeg, invoked |-> 0,
   resp |-> NoResponse]

Idle == [NewRequest("none", NoUpload) EXCEPT !.pc = "idle"]

\* the handler returns or raises: the request has its response
Finish(r, resp) == [r EXCEPT !.pc = "done", !.resp = resp]

\* except Exception as e (lines 165-167)
Caught(r, e) ==
  Finish(r, HTTPException(500, <<"Prediction error: ", e>>))

\* the entry checks with the content type looked at before the handle
PredictCheckTypeFirst(m, r) ==
  IF ~StartsWith(r.upload.content_type, ImagePrefix)
  THEN Finish(r, HTTPException(400, <<"File must be an image">>))
  ELSE IF m = None
       THEN Finish(r, HTTPException(500, <<"Model not loaded">>))
       ELSE [r EXCEPT !.pc = "decode"]

\* the two entry checks (lines 88-94)
PredictCheck(m, r) ==
  IF m = None
  THEN Finish(r, HTTPException(500, <<"Model not loaded">>))
  ELSE IF ~StartsWith(r.upload.content_type, ImagePrefix)
       THEN Finish(r, HTTPException(400, <<"File must be an image">>))
       ELSE [r EXCEPT !.pc = "decode"]

\* Image.convert (line 105): the mode changes, the size is kept
Convert(image, mode) == [image EXCEPT !.mode = mode]

\* file.read, Image.open, convert('RGB'), np.array (lines 100-108)
PredictDecode(m, r) ==
  CASE r.upload.decodes = "unidentified" -> Caught(r, "cannot identify image file")
    [] r.upload.decodes = "truncated"    -> Caught(r, "image file is truncated")
    [] OTHER ->
         LET opened == [mode |-> r.upload.mode, size |-> r.upload.size]
         IN  [r EXCEPT !.pc = "detect",
                       !.image = IF opened.mode # "RGB"
                                 THEN Convert(opened, "RGB")
                                 ELSE opened]

\* a detector call that is made again when it raises
PredictDetectRetry(m, r) ==
  IF r.upload.outcome = "raise"
  THEN Caught([r EXCEPT !.invoked = @ + 2], "detector failure")
  ELSE [r EXCEPT !.pc = "encode", !.invoked = @ + 1,
                 !.result = [none |-> (r.upload.outcome = "none"),
                             boxes |-> r.upload.boxes]]

\* model.predict(...) and results[0] (lines 113-122)
PredictDetect(m, r) ==
  LET called == [r EXCEPT !.invoked = @ + 1]
  IN  IF r.upload.outcome = "raise"
      THEN Caught(called, "detector failure")
      ELSE [called EXCEPT !.pc = "encode",
                          !.result = [none |-> (r.upload.outcome = "none"),
                                      boxes |-> r.upload.boxes]]

\* result.plot, cvtColor, imencode, b64encode (lines 125-135)
PredictEncode(m, r) ==
  IF ~r.upload.encodable
  THEN Caught(r, "Failed to encode image")
  ELSE [r EXCEPT !.pc = "map",
                 !.img_base64 = [encoding |-> "base64/jpeg",
                                 size |-> r.image.size,
                                 boxes |-> r.result.boxes]]

\* a record that looks up the name of class 0 whatever the box's class
DetectionRecordFirstName(m, box) ==
  [class |-> m.names[0], confidence |-> box.conf, box |-> box.xyxy]

\* the dict appended for one box (lines 141-150)
DetectionRecord(m, box) ==
  [class |-> m.names[box.cls], confidence |-> box.conf, box |-> box.xyxy]

\* a detections list built back to front
DetectionsReversed(m, result) ==
  IF ~result.none /\ Len(result.boxes) > 0
  THEN [i \in 1..Len(result.boxes) |->
          DetectionRecord(m, result.boxes[Len(result.boxes) + 1 - i])]
  ELSE <<>>

\* the detections list (lines 138-154)
Detections(m, result) ==
  IF ~result.none /\ Len(result.boxes) > 0
  THEN [i \in 1..Len(result.boxes) |-> DetectionRecord(m, result.boxes[i])]
  ELSE <<>>

\* a count of the distinct records instead of the list's length
NumDistinctDetections(detections) ==
  Cardinality({detections[i] : i \in 1..Len(detections)})

\* len(detections) (line 161)
NumDetections(detections) == Len(detections)

\* the success payload (lines 138-163)
PredictMap(m, r) ==
  LET detections == Detections(m, r.result)
  IN  Finish(r, Ok([success |-> TRUE,
                    annotated_image |-> r.img_base64,
                    detections |-> detections,
                    num_detections |-> NumDetections(detections),
                    image_size |-> r.image.size]))

\* one stage of predict (lines 76-167)
PredictStage(m, r) ==
  CASE r.pc = "start"  -> PredictCheck(m, r)
    [] r.pc = "decode" -> PredictDecode(m, r)
    [] r.pc = "detect" -> PredictDetect(m, r)
    [] r.pc = "encode" -> PredictEncode(m, r)
    [] r.pc = "map"    -> PredictMap(m, r)
    [] OTHER           -> r

\* predict run from r to its response (lines 76-167)
RECURSIVE PredictRun(_, _)
PredictRun(m, r) ==
  IF r.pc \in {"done", "idle"} THEN r ELSE PredictRun(m, PredictStage(m, r))

(* ------------------------- process start (lines 38-45) ----------------- *)

Init ==
  /\ model = Unbound
  /\ started = FALSE
  /\ calls = 0
  /\ nreq = 0
  /\ last = Idle
  /\ req = [i \in Slots |-> Idle]

\* try: model = YOLO(...) except Exception: model = None; then the server starts
LoadModel ==
  /\ ~started
  /\ started' = TRUE
  /\ \E loaded \in BOOLEAN : model' = IF loaded THEN YOLO ELSE None
  /\ UNCHANGED <<calls, nreq, last, req>>

(* ------------------ Spec: one handler run per action ------------------- *)

Serving == started /\ nreq < MaxRequests

\* GET /
root ==
  /\ Serving
  /\ last' = Finish(NewRequest("root", NoUpload), RootResponse(model))
  /\ nreq' = nreq + 1
  /\ UNCHANGED <<model, started, calls, req>>

\* a health check that probes the detector with a warm-up inference
health_check_probing ==
  /\ Serving
  /\ last' = Finish(NewRequest("health", NoUpload), HealthResponse(model))
  /\ nreq' = nreq + 1
  /\ calls' = calls + (IF model = None THEN 0 ELSE 1)
  /\ UNCHANGED <<model, started, req>>

\* GET /health
health_check ==
  /\ Serving
  /\ last' = Finish(NewRequest("health", NoUpload), HealthResponse(model))
  /\ nreq' = nreq + 1
  /\ UNCHANGED <<model, started, calls, req>>

\* GET /model-info
model_info ==
  /\ Serving
  /\ last' = Finish(NewRequest("model-info", NoUpload), ModelInfoResponse(model))
  /\ nreq' = nreq + 1
  /\ UNCHANGED <<model, started, calls, req>>

\* POST /predict with the upload u
predict(u) ==
  /\ Serving
  /\ last' = PredictRun(model, NewRequest("predict", u))
  /\ calls' = calls + last'.invoked
  /\ nreq' = nreq + 1
  /\ UNCHANGED <<model, started, req>>

Next ==
  \/ LoadModel
  \/ root
  \/ health_check
  \/ model_info
  \/ \E u \in Uploads : predict(u)

Spec == Init /\ [][Next]_vars

(* ------------- SpecConc: requests in flight, stage by stage ------------ *)

Kinds == {"root", "health", "model-info", "predict"}

\* a request is dispatched to its handler; only predict reads the upload
Arrive(i) ==
  /\ Serving
  /\ req[i].pc = "idle"
  /\ \E kind \in Kinds :
       \E u \in (IF kind = "predict" THEN ConcUploads ELSE {NoUpload}) :
         req' = [req EXCEPT ![i] = NewRequest(kind, u)]
  /\ nreq' = nreq + 1
  /\ UNCHANGED <<model, started, calls, last>>

ServeRoot(i) ==
  /\ req[i].kind = "root" /\ req[i].pc = "start"
  /\ req' = [req EXCEPT ![i] = Finish(@, RootResponse(model))]
  /\ UNCHANGED <<model, started, calls, nreq, last>>

ServeHealth(i) ==
  /\ req[i].kind = "health" /\ req[i].pc = "start"
  /\ req' = [req EXCEPT ![i] = Finish(@, HealthResponse(model))]
  /\ UNCHANGED <<model, started, calls, nreq, last>>

ServeModelInfo(i) ==
  /\ req[i].kind = "model-info" /\ req[i].pc = "start"
  /\ req' = [req EXCEPT ![i] = Finish(@, ModelInfoResponse(model))]
  /\ UNCHANGED <<model, started, calls, nreq, last>>

\* a predict whose upload sits in a module-level global that the first
\* slot's request overwrites
PredictStepSharedUpload(i) ==
  /\ req[i].kind = "predict" /\ req[i].pc \notin {"idle", "done"}
  /\ req' = [req EXCEPT ![i] =
               [PredictStage(model, [@ EXCEPT !.upload = req[1].upload])
                  EXCEPT !.upload = req[i].upload]]
  /\ calls' = calls + (req'[i].invoked - req[i].invoked)
  /\ UNCHANGED <<model, started, nreq, last>>

\* predict advances by one stage, reading the shared handle
PredictStep(i) ==
  /\ req[i].kind = "predict" /\ req[i].pc \notin {"idle", "done"}
  /\ req' = [req EXCEPT ![i] = PredictStage(model, @)]
  /\ calls' = calls + (req'[i].invoked - req[i].invoked)
  /\ UNCHANGED <<model, started, nreq, last>>

\* the response is sent; the request's locals are dropped
Respond(i) ==
  /\ req[i].pc = "done"
  /\ req' = [req EXCEPT ![i] = Idle]
  /\ UNCHANGED <<model, started, calls, nreq, last>>

NextConc ==
  \/ LoadModel
  \/ \E i \in Slots : Arrive(i)
  \/ \E i \in Slots : ServeRoot(i)
  \/ \E i \in Slots : ServeHealth(i)
  \/ \E i \in Slots : ServeModelInfo(i)
  \/ \E i \in Slots : PredictStep(i)
  \/ \E i \in Slots : Respond(i)

SpecConc == Init /\ [][NextConc]_vars

(* ======================== properties of the handlers =================== *)

\* the content types of ContentTypes that indicate an image
ImageTypes == {ImagePng, ImageSlash}

SuccessKeys ==
  {"success", "annotated_image", "detections", "num_detections", "image_size"}

PredictDone(r) == r.kind = "predict" /\ r.pc = "done"

Success(r) == PredictDone(r) /\ r.resp.status = 200

\* the boxes the detector returned for the upload of r
DetectorBoxes(r) == IF r.upload.outcome = "boxes" THEN r.upload.boxes ELSE <<>>

\* the step just taken served a request of one of these kinds (Spec)
Served(kinds) == nreq' = nreq + 1 /\ last'.kind \in kinds

(* ---- C1 ---- *)

C2_UndecodableIsInvalidInput ==
  (PredictDone(last) /\ model = YOLO
     /\ last.upload.content_type \in ImageTypes /\ last.upload.decodes # "ok")
    => (last.resp.status = 400 /\ last.invoked = 0)

(* ---- C3 ---- *)

\* C3: predict with the model not loaded answers 500 with none of the success
\* fields, without decoding the upload and without invoking the detector.
C3_UnloadedPredict ==
  (PredictDone(last) /\ model = None)
    => /\ last.resp.status = 500
       /\ DOMAIN last.resp.body \cap SuccessKeys = {}
       /\ last.image = NoImage
       /\ last.invoked = 0

C3_Witness ==
  /\ PredictDone(last) /\ model = None
  /\ last.upload.content_type = TextPlain
  /\ last.resp.status = 500

(* ---- C4 ---- *)

\* C4: in every 200 response of predict, num_detections is the length of
\* detections (0 and empty when the detector returns no boxes).
C4_CountMatches ==
  Success(last)
    => /\ last.resp.body.num_detections = Len(last.resp.body.detections)
       /\ DetectorBoxes(last) = <<>>
            => (last.resp.body.num_detections = 0
                /\ last.resp.body.detections = <<>>)

C4_Witness ==
  /\ Success(last)
  /\ last.resp.body.num_detections = 2
  /\ last.resp.body.detections[1] = last.resp.body.detections[2]

(* ---- C5 ---- *)

\* C5: detections has one record per detector box, the i-th from the i-th
\* box; a run in which nothing fails and the detector returns no boxes is a
\* 200 with empty detections.
C5_OneRecordPerBoxInOrder ==
  /\ Success(last)
       => /\ Len(last.resp.body.detections) = Len(DetectorBoxes(last))
          /\ \A i \in 1..Len(DetectorBoxes(last)) :
               /\ last.resp.body.detections[i].box = DetectorBoxes(last)[i].xyxy
               /\ last.resp.body.detections[i].confidence = DetectorBoxes(last)[i].conf
  /\ (PredictDone(last) /\ model = YOLO
        /\ last.upload.content_type \in ImageTypes
        /\ last.upload.decodes = "ok" /\ last.upload.outcome # "raise"
        /\ last.upload.encodable /\ DetectorBoxes(last) = <<>>)
       => (last.resp.status = 200 /\ last.resp.body.detections = <<>>)

C5_Witness ==
  /\ Success(last)
  /\ Len(last.resp.body.detections) = 2
  /\ last.resp.body.detections[1].confidence < last.resp.body.detections[2].confidence

(* ---- C6 ---- *)

C7_GetsAreFrameFree ==
  [][Served({"health", "model-info"})
       => (calls' = calls /\ model' = model /\ started' = started /\ req' = req)]_vars

C7_Witness ==
  /\ last.kind \in {"health", "model-info"} /\ last.pc = "done"
  /\ model = YOLO
  /\ calls > 0

(* ---- C8 ---- *)

\* C8: after startup the process serves in the loaded or the unloaded state;
\* / and /health answer 200 with model_loaded equal to the load state (and
\* /health has no classes when unloaded), /model-info answers 200 when loaded
\* and 500 when not, and predict answers 500 when not loaded.
C8_DegradedNotCrashed ==
  /\ started => model \in {YOLO, None}
  /\ last.pc = "done" =>
       /\ last.kind \in {"root", "health"}
            => /\ last.resp.status = 200
               /\ last.resp.body.model_loaded = (model = YOLO)
       /\ (last.kind = "health" /\ model = None) => last.resp.body.classes = <<>>
       /\ (last.kind = "health" /\ model = YOLO)
            => last.resp.body.classes = <<"debris", "satellite">>
       /\ last.kind = "model-info"
            => last.resp.status = (IF model = YOLO THEN 200 ELSE 500)
       /\ (last.kind = "predict" /\ model = None) => last.resp.status = 500

C8_Witness ==
  /\ last.kind = "health" /\ last.pc = "done"
  /\ model = None
  /\ last.resp.status = 200
  /\ nreq = MaxRequests

(* ---- C9 ---- *)

Causes ==
  {"cannot identify image file", "image file is truncated",
   "detector failure", "Failed to encode image"}

\* a stage after the two entry checks fails for the upload u
FailsAfterChecks(u) ==
  u.decodes # "ok" \/ u.outcome = "raise" \/ ~u.encodable

\* C9: a predict request has no response before it ends and then exactly one,
\* a complete success payload or an error with status and message; a failure
\* after the entry checks is a 500 whose message carries the cause; the
\* detector is invoked at most once per request and only once the model is
\* loaded and the content type is an image type.
C9_OneOutcome ==
  /\ calls <= nreq
  /\ \A i \in Slots :
       LET r == req[i]
       IN  r.kind = "predict" =>
             /\ r.invoked \in {0, 1}
             /\ r.invoked = 1
                  => /\ model = YOLO
                     /\ r.upload.content_type \in ImageTypes
                     /\ r.pc \notin {"start", "decode"}
             /\ r.pc # "done" => r.resp = NoResponse
             /\ r.pc = "done"
                  => \/ /\ r.resp.status = 200
                        /\ DOMAIN r.resp.body = SuccessKeys
                        /\ ~FailsAfterChecks(r.upload)
                     \/ /\ r.resp.status \in {400, 500}
                        /\ DOMAIN r.resp.body = {"detail"}
                        /\ r.resp.body.detail # <<>>
             /\ (r.pc = "done" /\ model = YOLO
                   /\ r.upload.content_type \in ImageTypes
                   /\ FailsAfterChecks(r.upload))
                  => /\ r.resp.status = 500
                     /\ Len(r.resp.body.detail) = 2
                     /\ r.resp.body.detail[2] \in Causes

C9_Witness ==
  \E i \in Slots :
    /\ PredictDone(req[i])
    /\ req[i].upload.outcome = "raise"
    /\ req[i].invoked = 1
    /\ req[i].resp.status = 500

(* ---- C10 ---- *)

\* the response of a request that runs alone against the handle m
Alone(m, r) ==
  CASE r.kind = "root"       -> RootResponse(m)
    [] r.kind = "health"     -> HealthResponse(m)
    [] r.kind = "model-info" -> ModelInfoResponse(m)
    [] OTHER                 -> PredictRun(m, NewRequest("predict", r.upload)).resp

\* C10: after startup no step changes the handle, and under every
\* interleaving a finished request has the response it would have alone.
C10_Isolation ==
  /\ [][started => model' = model]_vars
  /\ [](\A i \in Slots : req[i].pc = "done" => req[i].resp = Alone(model, req[i]))

C10_Witness ==
  \E i, j \in Slots :
    /\ i # j
    /\ PredictDone(req[i]) /\ req[i].resp.status = 200
    /\ PredictDone(req[j]) /\ req[j].resp.status = 500
    /\ req[j].invoked = 1

====
